---------------------------- MODULE Spec2Model ----------------------------
(***************************************************************************)
(* Home-Loan-EMI-Calculator: src/home_loan_calc.py.                        *)
(*                                                                         *)
(* The amortization engine calculate_home_loan(principal, years, rate_pa)  *)
(* and the Streamlit flow around it.                                       *)
(*                                                                         *)
(* Numbers.  The engine computes in Python floats.  The model computes the *)
(* same expressions, in the same order, over exact rationals: a number is  *)
(* a record [neg, n, d] standing for (-1)^neg * n / d, where n and d are   *)
(* naturals of arbitrary size written as sequences of limbs in base Base,  *)
(* least significant limb first, without leading zero limbs (<<>> is 0).   *)
(* A fraction is not kept in lowest terms; every comparison and every      *)
(* rounding is by value.  int() and round() are modelled as Python defines *)
(* them: truncation toward zero, and rounding to the nearest integer with  *)
(* ties going to the even one.                                             *)
(***************************************************************************)
EXTENDS Integers, Sequences, FiniteSets, Bags

VARIABLES
    \* A call of calculate_home_loan.
    principal,      \* the argument principal, a pair <<i, j>> for i/j
    years,          \* the argument years, a pair
    rate_pa,        \* the argument rate_pa, a pair
    pc,             \* "ready": not yet called; "returned"; "raised"
    res,            \* what the call gave: None, the result dict, or the error raised
    \* The Streamlit page.
    p_amount,       \* the "Loan Amount" number input
    tenure_years,   \* the "Tenure (Years)" slider
    int_rate,       \* the "Interest Rate (% P.A.)" number input, a pair
    calculate_btn,  \* whether the last run of the script was a click on "Calculate EMI"
    calls,          \* the engine calls of the last run, each the triple of its arguments
    rendered,       \* what the last run put on the page below the inputs
    df_schedule     \* the number of rows of the schedule table of the last run

engine_vars == <<principal, years, rate_pa, pc, res>>

page_vars == <<p_amount, tenure_years, int_rate, calculate_btn, calls, rendered, df_schedule>>

vars == <<engine_vars, page_vars>>

-----------------------------------------------------------------------------
(* Naturals of arbitrary size.                                             *)
(*                                                                         *)
(* A value that takes computing is given a name before it is used, as a    *)
(* Python assignment does: The({e : v \in {a}}) is e with v standing for   *)
(* the value of a.  The operators below are applied to such names.         *)

The(S) == CHOOSE v \in S : TRUE

Base == 1000

Max2(a, b) == IF a >= b THEN a ELSE b

Limb(x, i) == IF i >= 1 /\ i <= Len(x) THEN x[i] ELSE 0

\* x without its leading zero limbs.
Strip(x) ==
    The({IF \A i \in 1..Len(x1) : x1[i] = 0 THEN <<>>
         ELSE SubSeq(x1, 1, CHOOSE k \in 1..Len(x1) :
                               x1[k] # 0 /\ \A i \in (k + 1)..Len(x1) : x1[i] = 0) :
           x1 \in {x}})

\* The carry into limb i of a sum whose limbs, before carrying, are s: the
\* nearest limb below i that is not Base - 1 decides.
CarryIn(s, i) ==
    IF \E j \in 1..(i - 1) : s[j] >= Base /\ \A k \in (j + 1)..(i - 1) : s[k] = Base - 1
    THEN 1 ELSE 0

BAdd(x, y) ==
    The({Strip([i \in 1..Len(s) |-> (s[i] + CarryIn(s, i)) % Base]) :
           s \in {[i \in 1..(Max2(Len(x), Len(y)) + 1) |-> Limb(x, i) + Limb(y, i)]}})

\* The borrow from limb i of x - y.
BorrowIn(x, y, i) ==
    IF \E j \in 1..(i - 1) :
           x[j] < Limb(y, j) /\ \A k \in (j + 1)..(i - 1) : x[k] <= Limb(y, k)
    THEN 1 ELSE 0

\* x - y for x >= y.
BSub(x, y) ==
    Strip([i \in 1..Len(x) |-> (x[i] - Limb(y, i) - BorrowIn(x, y, i) + Base) % Base])

\* -1, 0, 1 as x < y, x = y, x > y.
BCmp(x, y) ==
    IF Len(x) < Len(y) THEN -1
    ELSE IF Len(x) > Len(y) THEN 1
    ELSE IF x = y THEN 0
    ELSE The({IF x[k] < y[k] THEN -1 ELSE 1 :
                k \in {CHOOSE k \in 1..Len(x) :
                          x[k] # y[k] /\ \A i \in (k + 1)..Len(x) : x[i] = y[i]}})

\* f with limbs that may exceed Base - 1, brought back into range: the
\* limbs' low parts plus their high parts one place up.
RECURSIVE Carry(_)
Carry(f) ==
    The({IF \A i \in 1..Len(g) : g[i] < Base THEN Strip(g)
         ELSE The({BAdd(low, high) :
                     low \in {Strip([i \in 1..Len(g) |-> g[i] % Base])},
                     high \in {<<0>> \o Carry([i \in 1..Len(g) |-> g[i] \div Base])}}) :
           g \in {f}})

\* x * m for a natural m small enough that a limb times m fits an integer.
BMulSmall(x, m) == Carry([i \in 1..Len(x) |-> x[i] * m])

\* The sum of the naturals of the sequence f.
SumSeq(f) ==
    The({BagCardinality([i \in DOMAIN g |-> g[i] + 1]) - Len(g) : g \in {f}})

BMul(x, y) ==
    Carry([k \in 1..(Len(x) + Len(y)) |->
             SumSeq([i \in 1..Len(x) |-> x[i] * Limb(y, k + 1 - i)])])

\* Long division.  One quotient limb: the largest q with q * y <= cur, for
\* cur < Base * y.  The leading limbs give an estimate that is never too
\* large and at most a few units too small; QFix adds the units.
QEst(cur, y) ==
    (Limb(cur, Len(y) + 1) * Base * Base + Limb(cur, Len(y)) * Base
        + Limb(cur, Len(y) - 1))
            \div (Limb(y, Len(y)) * Base + Limb(y, Len(y) - 1) + 1)

RECURSIVE QFix(_, _, _)
QFix(q, r, y) ==
    IF BCmp(r, y) < 0 THEN [q |-> q, r |-> r]
    ELSE The({QFix(q1, r1, y1) : q1 \in {q + 1}, r1 \in {BSub(r, y)}, y1 \in {y}})

QDigit(cur, y) ==
    The({The({The({QFix(e, r, y) : r \in {BSub(cur, m)}}) :
                m \in {BMulSmall(y, e)}}) :
           e \in {QEst(cur, y)}})

\* Limbs hi, hi - 1, ..., lo of x brought down one at a time onto the
\* remainder st.r, their quotient limbs put in front of st.q.
RECURSIVE DivLoop(_, _, _, _, _)
DivLoop(x, y, lo, hi, st) ==
    IF lo = hi
    THEN The({The({[q |-> <<step.q>> \o st.q, r |-> step.r] :
                     step \in {QDigit(cur, y)}}) :
                cur \in {Strip(<<x[hi]>> \o st.r)}})
    ELSE The({The({DivLoop(x, y, lo, mid, st1) :
                     st1 \in {DivLoop(x, y, mid + 1, hi, st)}}) :
                mid \in {(lo + hi) \div 2}})

\* [q, r] with x = q * y + r and 0 <= r < y, for y > 0.
BDivMod(x, y) ==
    IF BCmp(x, y) < 0 THEN [q |-> <<>>, r |-> x]
    ELSE The({The({[q |-> Strip(st.q), r |-> st.r] :
                     st \in {DivLoop(x, y, 1, Len(x) - Len(y) + 1, st0)}}) :
                st0 \in {[q |-> <<>>,
                          r |-> Strip(SubSeq(x, Len(x) - Len(y) + 2, Len(x)))]}})

FromNat(m) == Carry(<<m>>)

ToNat(x) == SumSeq([i \in 1..Len(x) |-> x[i] * Base^(i - 1)])

-----------------------------------------------------------------------------
(* Rationals: what a Python float stands for.                              *)

Frac(i, j) == [neg |-> i < 0, n |-> FromNat(IF i < 0 THEN -i ELSE i), d |-> FromNat(j)]

Num(i) == Frac(i, 1)

RIsZero(x) == x.n = <<>>

\* -1, 0, 1
RSign(x) == IF RIsZero(x) THEN 0 ELSE IF x.neg THEN -1 ELSE 1

RNeg(a) == The({[x EXCEPT !.neg = ~x.neg /\ ~RIsZero(x)] : x \in {a}})

\* x and y over one denominator: the larger denominator when the smaller
\* divides it, the product otherwise.
CommonProduct(x, y) ==
    [xn |-> BMul(x.n, y.d), yn |-> BMul(y.n, x.d), d |-> BMul(x.d, y.d)]

CommonLeft(x, y) ==
    The({IF xy.r = <<>> THEN [xn |-> x.n, yn |-> BMul(y.n, xy.q), d |-> x.d]
         ELSE CommonProduct(x, y) :
           xy \in {BDivMod(x.d, y.d)}})

Common(x, y) ==
    IF x.d = y.d THEN [xn |-> x.n, yn |-> y.n, d |-> x.d]
    ELSE The({IF yx.r = <<>> THEN [xn |-> BMul(x.n, yx.q), yn |-> y.n, d |-> y.d]
              ELSE CommonLeft(x, y) :
                yx \in {BDivMod(y.d, x.d)}})

RAdd(a, b) ==
    The({The({IF x.neg = y.neg THEN [neg |-> x.neg, n |-> BAdd(c.xn, c.yn), d |-> c.d]
              ELSE IF BCmp(c.xn, c.yn) >= 0
                   THEN [neg |-> x.neg /\ c.xn # c.yn, n |-> BSub(c.xn, c.yn), d |-> c.d]
                   ELSE [neg |-> y.neg, n |-> BSub(c.yn, c.xn), d |-> c.d] :
                c \in {Common(x, y)}}) :
           x \in {a}, y \in {b}})

RSub(a, b) == RAdd(a, RNeg(b))

RCmp(a, b) == The({RSign(x) : x \in {RSub(a, b)}})

RMax(a, b) == The({IF RCmp(x, y) >= 0 THEN x ELSE y : x \in {a}, y \in {b}})

\* n / d with n or d divided out when one divides the other.
CancelLeft(n, d) ==
    The({IF nd.r = <<>> THEN [n |-> nd.q, d |-> <<1>>] ELSE [n |-> n, d |-> d] :
           nd \in {BDivMod(n, d)}})

Cancel(n, d) ==
    IF n = <<>> THEN [n |-> n, d |-> d]
    ELSE The({IF dn.r = <<>> THEN [n |-> <<1>>, d |-> dn.q] ELSE CancelLeft(n, d) :
                dn \in {BDivMod(d, n)}})

RMul(a, b) ==
    The({IF RIsZero(x) \/ RIsZero(y) THEN Num(0)
         ELSE The({[neg |-> x.neg # y.neg, n |-> BMul(u.n, v.n), d |-> BMul(u.d, v.d)] :
                     u \in {Cancel(x.n, y.d)}, v \in {Cancel(y.n, x.d)}}) :
           x \in {a}, y \in {b}})

\* a / b for b # 0.
RDiv(a, b) == The({RMul(a, [neg |-> y.neg, n |-> y.d, d |-> y.n]) : y \in {b}})

\* a ** k for an integer k >= 0.
RECURSIVE RPow(_, _)
RPow(a, k) ==
    IF k = 0 THEN Num(1)
    ELSE The({The({[neg |-> x.neg # p.neg, n |-> BMul(p.n, x.n), d |-> BMul(p.d, x.d)] :
                     p \in {RPow(x, k1)}}) :
                x \in {a}, k1 \in {k - 1}})

\* Python's int(a): the integer part, toward zero.
PyInt(a) ==
    The({IF x.neg THEN -ToNat(BDivMod(x.n, x.d).q) ELSE ToNat(BDivMod(x.n, x.d).q) :
           x \in {a}})

\* The natural nearest n / d, a tie going to the even one.
Nearest(n, d) ==
    The({The({IF half > 0 \/ (half = 0 /\ q % 2 = 1) THEN q + 1 ELSE q :
                q \in {ToNat(dm.q)},
                half \in {The({BCmp(twice, d) : twice \in {BAdd(dm.r, dm.r)}})}}) :
           dm \in {BDivMod(n, d)}})

\* Python's round(a): the nearest integer, a tie going to the even one.
PyRound(a) ==
    The({IF x.neg THEN -Nearest(x.n, x.d) ELSE Nearest(x.n, x.d) : x \in {a}})

-----------------------------------------------------------------------------
(* The engine: calculate_home_loan.                                        *)

None == [kind |-> "None"]

ZeroDivisionError == [kind |-> "ZeroDivisionError"]

\* The guard with < written for <=: zero passes it.
InvalidInputNegative(p, y, r) ==
    RCmp(p, Num(0)) < 0 \/ RCmp(y, Num(0)) < 0 \/ RCmp(r, Num(0)) < 0

\* if principal <= 0 or years <= 0 or rate_pa <= 0
InvalidInput(p, y, r) ==
    RCmp(p, Num(0)) <= 0 \/ RCmp(y, Num(0)) <= 0 \/ RCmp(r, Num(0)) <= 0

\* monthly_rate = (rate_pa / 100) / 12
MonthlyRate(r) == RDiv(RDiv(r, Num(100)), Num(12))

\* tenure_months = int(years * 12)
TenureMonths(y) == PyInt(RMul(y, Num(12)))

\* The last value of year in "for year in range(1, int(years) + 1)".
LastYear(y) == PyInt(y)

\* The pass with the balance stepped the wrong way: += for -=.
MonthStepAdding(st, emi, monthly_rate) ==
    The({The({[remaining_balance |-> RAdd(st.remaining_balance, principal_m),
               yearly_interest   |-> RAdd(st.yearly_interest, interest_m),
               yearly_principal  |-> RAdd(st.yearly_principal, principal_m)] :
                principal_m \in {RSub(emi, interest_m)}}) :
           interest_m \in {RMul(st.remaining_balance, monthly_rate)}})

\* One pass of the body of "for month in range(12)".  st holds the three
\* names the body updates.
MonthStep(st, emi, monthly_rate) ==
    The({The({[remaining_balance |-> RSub(st.remaining_balance, principal_m),
               yearly_interest   |-> RAdd(st.yearly_interest, interest_m),
               yearly_principal  |-> RAdd(st.yearly_principal, principal_m)] :
                principal_m \in {RSub(emi, interest_m)}}) :
           interest_m \in {RMul(st.remaining_balance, monthly_rate)}})

\* The loop one pass short: range(11) for range(12).
RECURSIVE MonthLoopEleven(_, _, _, _)
MonthLoopEleven(month, st, emi, monthly_rate) ==
    IF month >= 11 THEN st
    ELSE The({MonthLoopEleven(month1, st1, emi1, monthly_rate1) :
                month1 \in {month + 1}, st1 \in {MonthStep(st, emi, monthly_rate)},
                emi1 \in {emi}, monthly_rate1 \in {monthly_rate}})

\* for month in range(12): passes month, month + 1, ..., 11.
RECURSIVE MonthLoop(_, _, _, _)
MonthLoop(month, st, emi, monthly_rate) ==
    IF month >= 12 THEN st
    ELSE The({MonthLoop(month1, st1, emi1, monthly_rate1) :
                month1 \in {month + 1}, st1 \in {MonthStep(st, emi, monthly_rate)},
                emi1 \in {emi}, monthly_rate1 \in {monthly_rate}})

\* The names as the inner loop finds them: the balance carried over, the
\* year's sums reset to 0.
YearStart(remaining_balance) ==
    [remaining_balance |-> remaining_balance,
     yearly_interest   |-> Num(0),
     yearly_principal  |-> Num(0)]

\* The dict with the opening balance read after the year's months instead
\* of before them.
ScheduleRowLateOpening(year, opening_balance, emi, st) ==
    [Year                  |-> year,
     Opening_Balance       |-> PyRound(st.remaining_balance),
     EMI_12                |-> PyRound(RMul(emi, Num(12))),
     Interest_paid_yearly  |-> PyRound(st.yearly_interest),
     Principal_paid_yearly |-> PyRound(st.yearly_principal),
     Closing_Balance       |-> PyRound(RMax(Num(0), st.remaining_balance))]

\* The dict appended to schedule; st is the state after the year's months.
ScheduleRow(year, opening_balance, emi, st) ==
    [Year                  |-> year,
     Opening_Balance       |-> PyRound(opening_balance),
     EMI_12                |-> PyRound(RMul(emi, Num(12))),
     Interest_paid_yearly  |-> PyRound(st.yearly_interest),
     Principal_paid_yearly |-> PyRound(st.yearly_principal),
     Closing_Balance       |-> PyRound(RMax(Num(0), st.remaining_balance))]

\* for year in range(1, int(years) + 1): passes year, ..., last.
RECURSIVE YearLoop(_, _, _, _, _, _)
YearLoop(year, last, remaining_balance, schedule, emi, monthly_rate) ==
    IF year > last THEN schedule
    ELSE The({The({YearLoop(year1, last1, st.remaining_balance, schedule1,
                            emi1, monthly_rate1) :
                     year1 \in {year + 1}, last1 \in {last},
                     schedule1 \in {Append(schedule,
                                           ScheduleRow(year, remaining_balance, emi, st))},
                     emi1 \in {emi}, monthly_rate1 \in {monthly_rate}}) :
                st \in {MonthLoop(0, YearStart(remaining_balance), emi, monthly_rate)}})

\* What line 19 on does with emi.
Payments(p, y, monthly_rate, emi) ==
    The({[kind           |-> "dict",
          monthly_emi    |-> PyRound(emi),
          total_interest |-> PyRound(RSub(total_payment, p)),
          total_payment  |-> PyRound(total_payment),
          schedule       |-> YearLoop(1, LastYear(y), p, <<>>, emi, monthly_rate)] :
           total_payment \in {RMul(emi, Num(TenureMonths(y)))}})

\* emi = (principal * monthly_rate * (1 + monthly_rate)**tenure_months)
\*           / ((1 + monthly_rate)**tenure_months - 1)
\* and what follows it, for a divisor that is not 0.
Amortize(p, y, monthly_rate, growth, divisor) ==
    The({Payments(p, y, monthly_rate, emi) :
           emi \in {RDiv(RMul(RMul(p, monthly_rate), growth), divisor)}})

\* The call from (1 + monthly_rate)**tenure_months on.
Powered(p, y, monthly_rate, growth) ==
    The({IF RIsZero(divisor) THEN ZeroDivisionError
         ELSE Amortize(p, y, monthly_rate, growth, divisor) :
           divisor \in {RSub(growth, Num(1))}})

calculate_home_loan(p, y, r) ==
    IF InvalidInput(p, y, r) THEN None
    ELSE The({The({Powered(p, y, monthly_rate, growth) :
                     growth \in {RPow(RAdd(Num(1), monthly_rate), TenureMonths(y))}}) :
                monthly_rate \in {MonthlyRate(r)}})

-----------------------------------------------------------------------------
(* A call of the engine.  The arguments are kept as pairs <<i, j>> for i/j. *)

Q(a) == Frac(a[1], a[2])

\* The arguments tried.  Principals: negative, zero, fractional, small and
\* of the size the loan-amount widget offers.  Years: negative, zero, less
\* than a month, and every multiple of half a year up to MaxYears.  Rates:
\* negative, zero, the widget's default 8.5, 10, 12 and three large ones.
MaxYears == 2

MaxSmallPrincipal == 3

Principals ==
    {<<-1, 1>>, <<0, 1>>, <<5, 4>>, <<3843, 1>>, <<100000, 1>>, <<400001, 4>>,
     <<2500000, 1>>}
        \cup {<<k, 1>> : k \in 1..MaxSmallPrincipal}

Years ==
    {<<-1, 1>>, <<0, 1>>, <<1, 24>>} \cup {<<k, 2>> : k \in 1..(2 * MaxYears)}

Rates ==
    {<<-1, 1>>, <<0, 1>>, <<17, 2>>, <<10, 1>>, <<12, 1>>, <<120, 1>>,
     <<300, 1>>, <<600, 1>>}

-----------------------------------------------------------------------------
(* The page.  Streamlit runs the script from the top on every interaction; *)
(* st.button gives True only in the run its click starts.                  *)

LoanAmountMin == 100000

LoanAmountDefault == 2500000

LoanAmountStep == 50000

TenureMin == 1

TenureMax == 30

TenureDefault == 25

RateMin == 1

RateMax == 20

RateDefault == <<17, 2>>

\* The loan amounts tried: the least one, MaxAmountSteps steps above it, and
\* the default.
MaxAmountSteps == 2

LoanAmounts ==
    {LoanAmountMin + k * LoanAmountStep : k \in 0..MaxAmountSteps} \cup {LoanAmountDefault}

\* The slider with min_value=0.
TenureChoicesFromZero == 0..TenureMax

\* st.slider("Tenure (Years)", min_value=1, max_value=30, value=25)
TenureChoices == TenureMin..TenureMax

\* st.number_input(..., min_value=1.0, max_value=20.0, value=8.5, step=0.05):
\* the two ends, the default and one step above the default.
RateChoices == {<<RateMin, 1>>, RateDefault, <<171, 20>>, <<RateMax, 1>>}

\* What the run needs of calculate_home_loan(p, y, r): which of its three
\* exits it takes and how many rows the schedule has.  The divisor
\* (1 + monthly_rate)**tenure_months - 1 is 0 exactly when tenure_months is
\* 0, monthly_rate being positive; the schedule gets one row for each pass
\* of the loop over year.
Outcome(p, y, r) ==
    IF InvalidInput(p, y, r) THEN [kind |-> "None", rows |-> 0]
    ELSE IF TenureMonths(y) = 0 THEN [kind |-> "ZeroDivisionError", rows |-> 0]
    ELSE [kind |-> "dict", rows |-> Max2(LastYear(y), 0)]

\* if res: ... else: st.error(...)
Shown(out) == IF out.kind = "dict" THEN {"report"} ELSE {"error"}

\* A run of the script: with the button not clicked, the hint; with it
\* clicked, one engine call and the branch its result selects.  An exception
\* of the engine ends the run, and Streamlit shows the exception.
Run(clicked) ==
    IF ~clicked
    THEN /\ calls' = <<>>
         /\ rendered' = {"info"}
         /\ df_schedule' = 0
    ELSE \E out \in {The({Outcome(p, y, r) :
                               p \in {Num(p_amount')}, y \in {Num(tenure_years')},
                               r \in {Q(int_rate')}})} :
             /\ calls' = <<(<<p_amount', tenure_years', int_rate'>>)>>
             /\ rendered' = IF out.kind = "ZeroDivisionError" THEN {"exception"} ELSE Shown(out)
             /\ df_schedule' = out.rows

SetLoanAmount ==
    /\ \E v \in LoanAmounts : p_amount' = v
    /\ UNCHANGED <<tenure_years, int_rate, engine_vars>>
    /\ calculate_btn' = FALSE
    /\ Run(FALSE)

SetTenure ==
    /\ \E v \in TenureChoices : tenure_years' = v
    /\ UNCHANGED <<p_amount, int_rate, engine_vars>>
    /\ calculate_btn' = FALSE
    /\ Run(FALSE)

SetRate ==
    /\ \E v \in RateChoices : int_rate' = v
    /\ UNCHANGED <<p_amount, tenure_years, engine_vars>>
    /\ calculate_btn' = FALSE
    /\ Run(FALSE)

ClickCalculate ==
    /\ UNCHANGED <<p_amount, tenure_years, int_rate, engine_vars>>
    /\ calculate_btn' = TRUE
    /\ Run(TRUE)

\* The download button is part of the report; its click starts a run in
\* which calculate_btn is False.
ClickDownload ==
    /\ "report" \in rendered
    /\ UNCHANGED <<p_amount, tenure_years, int_rate, engine_vars>>
    /\ calculate_btn' = FALSE
    /\ Run(FALSE)

PageInit ==
    /\ p_amount = LoanAmountDefault
    /\ tenure_years = TenureDefault
    /\ int_rate = RateDefault
    /\ calculate_btn = FALSE
    /\ calls = <<>>
    /\ rendered = {"info"}
    /\ df_schedule = 0

-----------------------------------------------------------------------------
(* Spec: one call of the engine on each of the arguments tried.            *)
(* SpecUI: the page, from its first run on.                                *)

Init ==
    /\ principal \in Principals
    /\ years \in Years
    /\ rate_pa \in Rates
    /\ pc = "ready"
    /\ res = [kind |-> "unset"]
    /\ PageInit

Calculate ==
    /\ pc = "ready"
    /\ res' = The({calculate_home_loan(p, y, r) :
                     p \in {Q(principal)}, y \in {Q(years)}, r \in {Q(rate_pa)}})
    /\ pc' = IF res'.kind = "ZeroDivisionError" THEN "raised" ELSE "returned"
    /\ UNCHANGED <<principal, years, rate_pa, page_vars>>

Next == Calculate

Spec == Init /\ [][Next]_vars

InitUI ==
    /\ principal = <<LoanAmountDefault, 1>>
    /\ years = <<TenureDefault, 1>>
    /\ rate_pa = RateDefault
    /\ pc = "ready"
    /\ res = [kind |-> "unset"]
    /\ PageInit

NextUI ==
    \/ SetLoanAmount
    \/ SetTenure
    \/ SetRate
    \/ ClickCalculate
    \/ ClickDownload

SpecUI == InitUI /\ [][NextUI]_vars
-----------------------------------------------------------------------------
(* Properties.  A call has returned a summary and schedule when Returned    *)
(* holds; the arguments are the pairs principal, years, rate_pa, whose      *)
(* second components are positive.                                          *)

Called == pc # "ready"

Returned == pc = "returned" /\ res.kind = "dict"

AllPositive == principal[1] > 0 /\ years[1] > 0 /\ rate_pa[1] > 0

Rows == Len(res.schedule)

Row(i) == res.schedule[i]

\* Outcome gives the exit and the number of rows of calculate_home_loan.
OutcomeAgrees ==
    Called =>
        LET out == Outcome(Q(principal), Q(years), Q(rate_pa))
        IN  /\ out.kind = res.kind
            /\ out.kind = "dict" => out.rows = Rows

PrincipalPaid == SumSeq([i \in 1..Rows |-> Row(i).Principal_paid_yearly])

\* C1: a call with at least one of principal, years, rate_pa zero or
\* negative returns None, and so no summary and no schedule, whatever the
\* other two arguments are.
NonPositiveGivesNone ==
    (Called /\ ~AllPositive) => (pc = "returned" /\ res = None)

NonPositiveGivesNoneWitness ==
    /\ pc = "returned" /\ res = None
    /\ rate_pa[1] = 0 /\ principal[1] > 0 /\ years[1] > 0

\* C2: a call with principal, years and rate_pa all strictly positive
\* completes and returns a summary and schedule; it does not end in another
\* way, such as a division by zero.
PositiveGivesResult == (Called /\ AllPositive) => Returned

\* C3: the schedule of a valid call has ceil(months / 12) rows, months being
\* floor(years * 12), and their Year fields are 1, 2, ... in that order.
RowsAreCeilOfMonths ==
    Returned =>
        /\ Rows = (TenureMonths(Q(years)) + 11) \div 12
        /\ \A i \in 1..Rows : Row(i).Year = i

\* C4: row 1's Opening Balance is the rounded principal, and the Closing
\* Balance of each row is the Opening Balance of the row after it.
BalancesChain ==
    Returned =>
        \A i \in 1..Rows :
            /\ i = 1 => Row(i).Opening_Balance = PyRound(Q(principal))
            /\ i < Rows => Row(i).Closing_Balance = Row(i + 1).Opening_Balance

BalancesChainWitness ==
    /\ Returned /\ Rows >= 2
    /\ Row(1).Opening_Balance > Row(1).Closing_Balance
    /\ Row(1).Closing_Balance > 0

\* C5: the last row's Closing Balance is 0 and no row's Closing Balance is
\* negative.
LastClosingIsZero ==
    (Returned /\ Rows >= 1) =>
        /\ Row(Rows).Closing_Balance = 0
        /\ \A i \in 1..Rows : Row(i).Closing_Balance >= 0

\* C6: the rows' Principal paid yearly add up to the principal to within
\* one currency unit for each row.  With principal = n / d the difference
\* is taken d-fold.
PrincipalAddsUp ==
    Returned =>
        /\ PrincipalPaid * principal[2] - principal[1] <= Rows * principal[2]
        /\ principal[1] - PrincipalPaid * principal[2] <= Rows * principal[2]

\* C7: total_interest is total_payment minus the principal, exactly.  With
\* principal = n / d both sides are taken d-fold.
InterestIsPaymentLessPrincipal ==
    Returned =>
        res.total_interest * principal[2] = res.total_payment * principal[2] - principal[1]

\* C8: from each row to the next, Principal paid yearly does not fall and
\* Interest paid yearly does not rise.
YearlyMonotone ==
    Returned =>
        \A i \in 1..(Rows - 1) :
            /\ Row(i + 1).Principal_paid_yearly >= Row(i).Principal_paid_yearly
            /\ Row(i + 1).Interest_paid_yearly <= Row(i).Interest_paid_yearly

YearlyMonotoneWitness ==
    /\ Returned /\ Rows >= 2
    /\ Row(2).Principal_paid_yearly > Row(1).Principal_paid_yearly
    /\ Row(2).Interest_paid_yearly < Row(1).Interest_paid_yearly

\* C9: in each row Interest paid yearly plus Principal paid yearly is
\* EMI*12 to within 1, and EMI*12 is the same in every row.
YearIsFullySplit ==
    Returned =>
        \A i \in 1..Rows :
            /\ Row(i).Interest_paid_yearly + Row(i).Principal_paid_yearly
                   - Row(i).EMI_12 \in {-1, 0, 1}
            /\ Row(i).EMI_12 = Row(1).EMI_12

YearIsFullySplitWitness ==
    /\ Returned /\ Rows >= 2
    /\ \E i \in 1..Rows :
           Row(i).Interest_paid_yearly + Row(i).Principal_paid_yearly # Row(i).EMI_12

\* C10: the run a click on "Calculate EMI" starts calls the engine once,
\* with the values the widgets hold, and shows the report or the error, one
\* of the two; the widgets keeping the loan amount at 100000 or more, the
\* tenure a whole number from 1 to 30 and the rate from 1 to 20, it is the
\* report that is shown, with one schedule row for each year of the tenure,
\* and the error is never shown.
ClickShowsReport ==
    /\ "error" \notin rendered
    /\ ~calculate_btn => calls = <<>>
    /\ calculate_btn =>
        /\ Len(calls) = 1
        /\ calls[1] = <<p_amount, tenure_years, int_rate>>
        /\ p_amount >= LoanAmountMin
        /\ tenure_years \in TenureMin..TenureMax
        /\ RateMin * int_rate[2] <= int_rate[1] /\ int_rate[1] <= RateMax * int_rate[2]
        /\ rendered = {"report"}
        /\ df_schedule = tenure_years

ClickShowsReportWitness ==
    /\ calculate_btn /\ rendered = {"report"}
    /\ tenure_years = TenureMax /\ df_schedule = TenureMax
    /\ p_amount = LoanAmountMin /\ int_rate = <<RateMax, 1>>

=============================================================================
